---- MODULE Spec2Model ----
(***************************************************************************)
(* Model of scripts/convert-sqlite-to-eml.mjs: the attachment decoder      *)
(* (decodeHex, decodeContent), the MIME tree serializer                    *)
(* (processEmailContent, parseNode) and the export loop that drives them.  *)
(*                                                                         *)
(* Text is a sequence of code points, binary content a sequence of bytes.  *)
(* A rendered message is a sequence of lines; every line is a record       *)
(* [k, n, v, b, d]: kind, header name, text, boundary, data.              *)
(*                                                                         *)
(* And of jobs/sync-paid-alias-allowlist.js: the loop over the paid        *)
(* domains that collects the candidate values of a domain, checks them     *)
(* against the backscatter, denylist and silent keys and writes the        *)
(* allowlist keys.                                                         *)
(***************************************************************************)
EXTENDS Integers, Sequences, FiniteSets, TLC

\* ------------------------------------------------------------------------
\* Bounds of the model
\* ------------------------------------------------------------------------
MaxBodyLen == 2
MaxRows == 2
MaxMessages == 2
MaxKids == 2
MaxDomains == 2

\* ------------------------------------------------------------------------
\* Text and byte helpers (String.prototype.replace, Buffer.from, toString)
\* ------------------------------------------------------------------------

\* /[\r\n\s]/ : the whitespace class of the regular expressions
IsSpace(c) == c \in {9, 10, 11, 12, 13, 32, 160}

\* /[0-9A-Fa-f]/
IsHexDigit(c) == c \in ((48..57) \cup (65..70) \cup (97..102))

\* str.replace(/[\r\n\s]+/g, '')
StripWS(s) == SelectSeq(s, LAMBDA c : ~IsSpace(c))

HexVal(c) == IF c <= 57 THEN c - 48 ELSE IF c <= 70 THEN c - 55 ELSE c - 87

\* Buffer.from(cleaned, 'hex'): one byte per pair of digits, a trailing
\* single digit is dropped
BufferFromHex(s) ==
    [i \in 1..(Len(s) \div 2) |-> (16 * HexVal(s[(2 * i) - 1])) + HexVal(s[2 * i])]

HexChar(v) == IF v < 10 THEN 48 + v ELSE 87 + v

\* buf.toString('hex'): two lower-case digits per byte
BufferToHex(b) ==
    [i \in 1..(2 * Len(b)) |->
        IF i % 2 = 1 THEN HexChar(b[(i + 1) \div 2] \div 16)
                     ELSE HexChar(b[i \div 2] % 16)]

IsCont(b) == b >= 128 /\ b <= 191

\* second byte admitted after a three-byte lead
Lead3Ok(lead, b) ==
    IF lead = 224 THEN b >= 160 /\ b <= 191
    ELSE IF lead = 237 THEN b >= 128 /\ b <= 159
    ELSE IsCont(b)

\* second byte admitted after a four-byte lead
Lead4Ok(lead, b) ==
    IF lead = 240 THEN b >= 144 /\ b <= 191
    ELSE IF lead = 244 THEN b >= 128 /\ b <= 143
    ELSE IsCont(b)

RECURSIVE Utf8Decode(_)
\* buf.toString('utf8'): malformed sequences become U+FFFD
Utf8Decode(b) ==
    IF Len(b) = 0 THEN <<>>
    ELSE LET b1 == b[1]
             n == Len(b)
             rest(k) == IF k >= n THEN <<>> ELSE SubSeq(b, k + 1, n)
         IN  IF b1 < 128 THEN <<b1>> \o Utf8Decode(rest(1))
             ELSE IF b1 >= 194 /\ b1 <= 223 THEN
                  IF n >= 2 /\ IsCont(b[2])
                  THEN <<((b1 - 192) * 64) + (b[2] - 128)>> \o Utf8Decode(rest(2))
                  ELSE <<65533>> \o Utf8Decode(rest(1))
             ELSE IF b1 >= 224 /\ b1 <= 239 THEN
                  IF n >= 2 /\ Lead3Ok(b1, b[2])
                  THEN IF n >= 3 /\ IsCont(b[3])
                       THEN <<((b1 - 224) * 4096) + ((b[2] - 128) * 64) + (b[3] - 128)>>
                            \o Utf8Decode(rest(3))
                       ELSE <<65533>> \o Utf8Decode(rest(2))
                  ELSE <<65533>> \o Utf8Decode(rest(1))
             ELSE IF b1 >= 240 /\ b1 <= 244 THEN
                  IF n >= 2 /\ Lead4Ok(b1, b[2])
                  THEN IF n >= 3 /\ IsCont(b[3])
                       THEN IF n >= 4 /\ IsCont(b[4])
                            THEN <<((b1 - 240) * 262144) + ((b[2] - 128) * 4096)
                                   + ((b[3] - 128) * 64) + (b[4] - 128)>>
                                 \o Utf8Decode(rest(4))
                            ELSE <<65533>> \o Utf8Decode(rest(3))
                       ELSE <<65533>> \o Utf8Decode(rest(2))
                  ELSE <<65533>> \o Utf8Decode(rest(1))
             ELSE <<65533>> \o Utf8Decode(rest(1))

RECURSIVE Utf8Encode(_)
\* Buffer.from(string): the UTF-8 bytes of the text
Utf8Encode(s) ==
    IF Len(s) = 0 THEN <<>>
    ELSE LET c == s[1]
             enc == IF c < 128 THEN <<c>>
                    ELSE IF c < 2048 THEN <<192 + (c \div 64), 128 + (c % 64)>>
                    ELSE IF c < 65536
                         THEN <<224 + (c \div 4096), 128 + ((c \div 64) % 64), 128 + (c % 64)>>
                    ELSE <<240 + (c \div 262144), 128 + ((c \div 4096) % 64),
                           128 + ((c \div 64) % 64), 128 + (c % 64)>>
         IN  enc \o Utf8Encode(Tail(s))

\* value of a character of the base64 alphabet ('-' and '_' are accepted
\* for '+' and '/'), 64 for every other character
B64Val(c) ==
    IF c >= 65 /\ c <= 90 THEN c - 65
    ELSE IF c >= 97 /\ c <= 122 THEN c - 71
    ELSE IF c >= 48 /\ c <= 57 THEN c + 4
    ELSE IF c = 43 \/ c = 45 THEN 62
    ELSE IF c = 47 \/ c = 95 THEN 63
    ELSE 64

RECURSIVE B64BeforePad(_)
\* decoding stops at the first '='
B64BeforePad(s) ==
    IF Len(s) = 0 \/ s[1] = 61 THEN <<>> ELSE <<s[1]>> \o B64BeforePad(Tail(s))

RECURSIVE B64Bytes(_)
B64Bytes(v) ==
    IF Len(v) < 2 THEN <<>>
    ELSE LET b1 == (v[1] * 4) + (v[2] \div 16)
         IN  IF Len(v) = 2 THEN <<b1>>
             ELSE LET b2 == ((v[2] % 16) * 16) + (v[3] \div 4)
                  IN  IF Len(v) = 3 THEN <<b1, b2>>
                      ELSE <<b1, b2, ((v[3] % 4) * 64) + v[4]>>
                           \o B64Bytes(SubSeq(v, 5, Len(v)))

\* Buffer.from(text, 'base64'): never raises; characters outside the
\* alphabet are skipped, '=' ends the input, incomplete groups are cut
BufferFromBase64(s) ==
    LET sextets == SelectSeq(B64BeforePad(s), LAMBDA c : B64Val(c) < 64)
    IN  B64Bytes([i \in 1..Len(sextets) |-> B64Val(sextets[i])])

B64Char(v) ==
    IF v < 26 THEN 65 + v
    ELSE IF v < 52 THEN 71 + v
    ELSE IF v < 62 THEN v - 4
    ELSE IF v = 62 THEN 43 ELSE 47

RECURSIVE BufferToBase64(_)
\* buf.toString('base64'): padded base64 text
BufferToBase64(b) ==
    IF Len(b) = 0 THEN <<>>
    ELSE LET c1 == B64Char(b[1] \div 4)
         IN  IF Len(b) = 1 THEN <<c1, B64Char((b[1] % 4) * 16), 61, 61>>
             ELSE LET c2 == B64Char(((b[1] % 4) * 16) + (b[2] \div 16))
                  IN  IF Len(b) = 2
                      THEN <<c1, c2, B64Char((b[2] % 16) * 4), 61>>
                      ELSE <<c1, c2, B64Char(((b[2] % 16) * 4) + (b[3] \div 64)),
                             B64Char(b[3] % 64)>>
                           \o BufferToBase64(SubSeq(b, 4, Len(b)))

\* ------------------------------------------------------------------------
\* Strings of the model.  Names, media types and header values are opaque
\* strings; ToLowerCase is the table of the case variants that occur.
\* ------------------------------------------------------------------------
ToLowerCase(s) ==
    CASE s = "BASE64" -> "base64"
      [] s = "Base64" -> "base64"
      [] s = "7BIT" -> "7bit"
      [] s = "Quoted-Printable" -> "quoted-printable"
      [] s = "Content-Type" -> "content-type"
      [] s = "CONTENT-TYPE" -> "content-type"
      [] s = "Content-Transfer-Encoding" -> "content-transfer-encoding"
      [] s = "From" -> "from"
      [] s = "FROM" -> "from"
      [] s = "To" -> "to"
      [] s = "Date" -> "date"
      [] s = "Subject" -> "subject"
      [] s = "X-Mailer" -> "x-mailer"
      [] OTHER -> s

\* ------------------------------------------------------------------------
\* Attachment decoder
\* ------------------------------------------------------------------------

\* the value null of decodeHex and decodeContent
Null == [ok |-> FALSE, bytes |-> <<>>, warned |-> FALSE]

Content(b, w) == [ok |-> TRUE, bytes |-> b, warned |-> w]

decodeHex(str) ==
    LET cleaned == StripWS(str)
    IN  IF Len(cleaned) = 0 \/ \E i \in 1..Len(cleaned) : ~IsHexDigit(cleaned[i])
        THEN Null
        ELSE Content(BufferFromHex(cleaned), FALSE)

\* the switch without the toLowerCase() of its operand
TransferDecodeCaseSensitive(hexDecoded, transferEncoding) ==
    LET hexDecodedStr == Utf8Decode(hexDecoded)
    IN  IF transferEncoding = "base64"
        THEN Content(BufferFromBase64(StripWS(hexDecodedStr)), FALSE)
        ELSE IF transferEncoding \in {"7bit", "8bit", "binary"}
        THEN Content(hexDecoded, FALSE)
        ELSE IF transferEncoding = "quoted-printable"
        THEN Content(Utf8Encode(hexDecodedStr), FALSE)
        ELSE Content(hexDecoded, TRUE)

\* the switch on transferEncoding.toLowerCase()
TransferDecode(hexDecoded, transferEncoding) ==
    LET hexDecodedStr == Utf8Decode(hexDecoded)
        enc == ToLowerCase(transferEncoding)
    IN  IF enc = "base64"
        THEN Content(BufferFromBase64(StripWS(hexDecodedStr)), FALSE)
        ELSE IF enc \in {"7bit", "8bit", "binary"}
        THEN Content(hexDecoded, FALSE)
        ELSE IF enc = "quoted-printable"
        THEN Content(Utf8Encode(hexDecodedStr), FALSE)
        ELSE Content(hexDecoded, TRUE)

\* decodeContent(body, transferEncoding, debugPrefix); writable says
\* whether fs.writeFileSync succeeds on the files named by debugPrefix:
\* a failing write raises, and the catch returns null
decodeContent(body, transferEncoding, writable) ==
    IF Len(body) = 0 THEN Null
    ELSE IF ~writable THEN Null
    ELSE LET hexDecoded == decodeHex(body)
         IN  IF ~hexDecoded.ok
             THEN Content(Utf8Encode(body), FALSE)
             ELSE TransferDecode(hexDecoded.bytes, transferEncoding)

\* ------------------------------------------------------------------------
\* Lines of a rendered message
\* ------------------------------------------------------------------------
Line(k, n, v, b, d, f) == [k |-> k, n |-> n, v |-> v, b |-> b, d |-> d, f |-> f]

\* "Name: value", the value possibly carrying boundary="b" and name="f"
Hdr(n, v, b) == Line("hdr", n, v, b, <<>>, <<>>)
HdrFile(n, v, f) == Line("hdr", n, v, "", <<>>, f)
Blank == Line("blank", "", "", "", <<>>, <<>>)
TextLine(t) == IF t = "" THEN Blank ELSE Line("text", "", t, "", <<>>, <<>>)
\* "--b" and "--b--"
Open(b) == Line("open", "", "", b, <<>>, <<>>)
Close(b) == Line("close", "", "", b, <<>>, <<>>)
BodyLine(t) == IF t = "" THEN Blank ELSE Line("body", "", t, "", <<>>, <<>>)
DataLine(d) == Line("b64", "", "", "", d, <<>>)

Preamble == "This is a multi-part message in MIME format."

\* the tokens randomUUID yields, in the order of the calls of one
\* processEmailContent: every call yields a token not seen before
BoundaryTokens ==
    <<"----=_Part_01", "----=_Part_02", "----=_Part_03", "----=_Part_04",
      "----=_Part_05", "----=_Part_06", "----=_Part_07", "----=_Part_08",
      "----=_Part_09", "----=_Part_10", "----=_Part_11", "----=_Part_12",
      "----=_Part_13", "----=_Part_14", "----=_Part_15", "----=_Part_16",
      "----=_Part_17", "----=_Part_18", "----=_Part_19", "----=_Part_20">>

\* generateBoundary, as the n-th call
generateBoundary(n) == BoundaryTokens[n]

\* normalizeEncoding: BOM removed, no-break space to space, the
\* mis-transcoded sequences fixed
normalizeEncoding(text) ==
    CASE text = "BOM+Hi" -> "Hi"
      [] text = "a NBSP b" -> "a b"
      [] OTHER -> text

\* he.decode: HTML entities to characters
heDecode(text) ==
    CASE text = "<!DOCTYPE html><p>a&amp;b</p>" -> "<!DOCTYPE html><p>a&b</p>"
      [] text = "  <!doctype HTML>&lt;" -> "  <!doctype HTML><"
      [] OTHER -> text

\* body.trim().toLowerCase().startsWith('<!doctype html')
StartsWithDoctype(body) ==
    body \in {"<!DOCTYPE html><p>a&amp;b</p>", "  <!doctype HTML>&lt;"}

\* contentType.startsWith('multipart/')
IsMultipart(ct) == ct \in {"multipart/mixed", "multipart/alternative"}

\* contentType.includes('text/html')
IncludesHtml(ct) == ct \in {"text/html", "text/html; charset=UTF-8"}

\* new Date(value).toUTCString()
ToUTCString(v) ==
    CASE v = "Mon, 1 Jan 2024 10:00:00 +0200" -> "Mon, 01 Jan 2024 08:00:00 GMT"
      [] v = "2024-01-01T08:00:00Z" -> "Mon, 01 Jan 2024 08:00:00 GMT"
      [] OTHER -> "Invalid Date"

RECURSIVE Chunks(_, _)
\* text.match(/.{1,76}/g) of a non-empty text
Chunks(s, w) ==
    IF Len(s) <= w THEN <<s>>
    ELSE <<SubSeq(s, 1, w)>> \o Chunks(SubSeq(s, w + 1, Len(s)), w)

WrapWidth == 76

\* ------------------------------------------------------------------------
\* MIME tree serializer.  A node is [header, body, attachmentId,
\* childNodes]; a stored header line is [n, v, b]: the text before the
\* first colon, the value, and the boundary parameter the value carries
\* ("" when /boundary="?([^";\s]+)"?/i does not match).
\* ------------------------------------------------------------------------
HeaderState0 ==
    [headers |-> <<>>, keys |-> {}, ctv |-> "", ctb |-> "", boundary |-> ""]

\* one round of the loop over node.header
HeaderStep(st, h) ==
    IF h.n = "" THEN st
    ELSE LET normalizedKey == ToLowerCase(h.n)
             isCT == normalizedKey = "content-type"
         IN  [headers |-> Append(st.headers, Hdr(h.n, normalizeEncoding(h.v), h.b)),
              keys |-> st.keys \cup {normalizedKey},
              ctv |-> IF isCT THEN h.v ELSE st.ctv,
              ctb |-> IF isCT THEN h.b ELSE st.ctb,
              boundary |-> IF isCT /\ h.b # "" THEN h.b ELSE st.boundary]

RECURSIVE ParseHeaders(_, _)
ParseHeaders(header, st) ==
    IF Len(header) = 0 THEN st
    ELSE ParseHeaders(Tail(header), HeaderStep(st, Head(header)))

\* headers.find(h => h.toLowerCase().startsWith('content-transfer-encoding:'))
\*   || 'Content-Transfer-Encoding: quoted-printable'
FindTransferEncoding(headers) ==
    LET hits == SelectSeq(headers,
                   LAMBDA h : ToLowerCase(h.n) = "content-transfer-encoding")
    IN  IF Len(hits) > 0 THEN hits[1]
        ELSE Hdr("Content-Transfer-Encoding", "quoted-printable", "")

\* p.startsWith('Content-Type:')
StartsWithContentType(p) ==
    \/ p.k = "hdr" /\ p.n = "Content-Type"
    \/ p.k = "body" /\ p.v = "Content-Type: in the body"

\* nodeParts.findIndex(...), 0 for -1
FindContentType(parts) ==
    IF \E i \in 1..Len(parts) : StartsWithContentType(parts[i])
    THEN CHOOSE i \in 1..Len(parts) :
            /\ StartsWithContentType(parts[i])
            /\ \A j \in 1..(i - 1) : ~StartsWithContentType(parts[j])
    ELSE 0

\* the attachment part without the closing delimiter after the content
AttachmentPartUnclosed(attachment, boundary) ==
    <<HdrFile("Content-Type", attachment.contentType, attachment.name),
      Hdr("Content-Transfer-Encoding", "base64", ""),
      HdrFile("Content-Disposition", "attachment", attachment.name),
      Blank>>
    \o [i \in 1..Len(Chunks(BufferToBase64(attachment.content), WrapWidth)) |->
           DataLine(Chunks(BufferToBase64(attachment.content), WrapWidth)[i])]
    \o <<Blank, Blank>>

\* the attachment part pushed at the end of the attachment handling
AttachmentPart(attachment, boundary) ==
    <<HdrFile("Content-Type", attachment.contentType, attachment.name),
      Hdr("Content-Transfer-Encoding", "base64", ""),
      HdrFile("Content-Disposition", "attachment", attachment.name),
      Blank>>
    \o [i \in 1..Len(Chunks(BufferToBase64(attachment.content), WrapWidth)) |->
           DataLine(Chunks(BufferToBase64(attachment.content), WrapWidth)[i])]
    \o <<Blank, Close(boundary), Blank>>

\* the header block with the transfer-encoding default pushed for every node
NodeHeadersAlwaysDefault(node) ==
    LET hs == ParseHeaders(node.header, HeaderState0)
        noCT == hs.ctv = "" /\ hs.ctb = ""
        inferred == IF ~noCT THEN ""
                    ELSE IF StartsWithDoctype(node.body)
                         THEN "text/html; charset=UTF-8"
                    ELSE IF node.body # "" THEN "text/plain; charset=UTF-8"
                    ELSE ""
        headers1 == IF inferred # ""
                    THEN Append(hs.headers, Hdr("Content-Type", inferred, ""))
                    ELSE hs.headers
    IN  [headers |-> Append(headers1,
                            Hdr("Content-Transfer-Encoding", "quoted-printable", "")),
         contentType |-> IF noCT THEN inferred ELSE hs.ctv,
         ctb |-> hs.ctb,
         boundary |-> hs.boundary]

\* the header block of a node and what the header loop found: the lines
\* to emit, the resolved content type (stored or inferred), the boundary
\* parameter of the stored content type, and the declared boundary
NodeHeaders(node) ==
    LET hs == ParseHeaders(node.header, HeaderState0)
        noCT == hs.ctv = "" /\ hs.ctb = ""
        inferred == IF ~noCT THEN ""
                    ELSE IF StartsWithDoctype(node.body)
                         THEN "text/html; charset=UTF-8"
                    ELSE IF node.body # "" THEN "text/plain; charset=UTF-8"
                    ELSE ""
        headers1 == IF inferred # ""
                    THEN Append(hs.headers, Hdr("Content-Type", inferred, ""))
                    ELSE hs.headers
    IN  [headers |-> IF "content-transfer-encoding" \notin hs.keys
                     THEN Append(headers1,
                             Hdr("Content-Transfer-Encoding", "quoted-printable", ""))
                     ELSE headers1,
         contentType |-> IF noCT THEN inferred ELSE hs.ctv,
         ctb |-> hs.ctb,
         boundary |-> hs.boundary]

\* what parseNode returns: the lines, the number of generateBoundary calls
\* made so far, whether it raised (null.join on an attachment whose base64
\* text is empty), and per multipart level of the rendering (a node with
\* delimiter lines of its own) the boundaries of these lines
Rendering(lines, n, threw, levels) ==
    [lines |-> lines, n |-> n, threw |-> threw, levels |-> levels]

\* [...headers, '', bodyContent]
BaseParts(node, nh) ==
    nh.headers
    \o <<Blank,
         BodyLine(normalizeEncoding(IF IncludesHtml(nh.contentType)
                                    THEN heDecode(node.body)
                                    ELSE node.body))>>

\* what the attachment handling leaves: nodeParts, boundary, the number of
\* generateBoundary calls, whether an attachment part was pushed, and
\* whether the push raised
Attached(parts, boundary, n, hasAtt, threw) ==
    [parts |-> parts, boundary |-> boundary, n |-> n, hasAtt |-> hasAtt,
     threw |-> threw]

\* node.attachmentId && attachments[node.attachmentId]
HasAttachment(node, attachments) ==
    node.attachmentId # "" /\ node.attachmentId \in DOMAIN attachments

\* the branch for a content type that is not multipart/*: the rendering
\* becomes the first part of a new multipart/mixed envelope
WrapNode(nh, parts, attachment, newBoundary, n) ==
    Attached(<<Hdr("Content-Type", "multipart/mixed", newBoundary),
               Blank,
               Open(newBoundary),
               Hdr("Content-Type", nh.contentType, nh.ctb),
               FindTransferEncoding(nh.headers),
               Blank>>
             \o parts \o <<Open(newBoundary)>>
             \o AttachmentPart(attachment, newBoundary),
             newBoundary, n, TRUE, Len(attachment.content) = 0)

\* the branch for multipart/*: the delimiter uses boundary
AppendToMultipart(nh, parts, attachment, n) ==
    Attached(parts \o <<Open(nh.boundary)>> \o AttachmentPart(attachment, nh.boundary),
             nh.boundary, n, TRUE, Len(attachment.content) = 0)

\* the attachment handling; attachmentBoundary takes a generateBoundary
\* call when no boundary is declared
HandleAttachment(node, n, attachments, nh, parts) ==
    IF ~HasAttachment(node, attachments)
    THEN Attached(parts, nh.boundary, n, FALSE, FALSE)
    ELSE IF ~IsMultipart(nh.contentType)
    THEN WrapNode(nh, parts, attachments[node.attachmentId],
                  generateBoundary((IF nh.boundary = "" THEN n + 1 ELSE n) + 1),
                  (IF nh.boundary = "" THEN n + 1 ELSE n) + 1)
    ELSE AppendToMultipart(nh, parts, attachments[node.attachmentId],
                           IF nh.boundary = "" THEN n + 1 ELSE n)

\* the rewrite of the Content-Type header when no boundary is declared
RewriteContentType(parts, contentType, subBoundary, contentTypeHeader) ==
    IF contentTypeHeader # 0
    THEN [parts EXCEPT ![contentTypeHeader] = Hdr("Content-Type", contentType, subBoundary)]
    ELSE <<Hdr("Content-Type", contentType, subBoundary)>> \o parts

\* the multipart level of a node: the boundaries of its delimiter lines
LevelOf(hasAtt, boundary, multi, subBoundary) ==
    IF ~hasAtt /\ ~multi THEN <<>>
    ELSE <<(IF hasAtt THEN {boundary} ELSE {}) \cup (IF multi THEN {subBoundary} ELSE {})>>

\* the end of the child handling of a multipart/* node
CloseMultipart(parts, at, subBoundary, kids) ==
    IF kids.threw THEN Rendering(<<>>, kids.n, TRUE, <<>>)
    ELSE Rendering(parts \o <<Blank>> \o kids.lines \o <<Close(subBoundary)>>,
                   kids.n, FALSE,
                   LevelOf(at.hasAtt, at.boundary, TRUE, subBoundary) \o kids.levels)

\* the end of the child handling of a node that is not multipart/*
AppendChildren(at, kids) ==
    IF kids.threw THEN Rendering(<<>>, kids.n, TRUE, <<>>)
    ELSE Rendering(at.parts \o kids.lines, kids.n, FALSE,
                   LevelOf(at.hasAtt, at.boundary, FALSE, "") \o kids.levels)

RECURSIVE parseNode(_, _, _)
RECURSIVE parseChildren(_, _, _, _, _)
RECURSIVE HandleChildren(_, _, _, _)

\* the child handling, at the state at the attachment handling left
HandleChildren(node, attachments, nh, at) ==
    IF at.threw THEN Rendering(<<>>, at.n, TRUE, <<>>)
    ELSE IF Len(node.childNodes) = 0
    THEN Rendering(at.parts, at.n, FALSE, LevelOf(at.hasAtt, at.boundary, FALSE, ""))
    ELSE IF ~IsMultipart(nh.contentType)
    THEN AppendChildren(at, parseChildren(node.childNodes, at.n, attachments, FALSE, ""))
    ELSE IF at.boundary # ""
    THEN CloseMultipart(at.parts, at, at.boundary,
                        parseChildren(node.childNodes, at.n, attachments, TRUE,
                                      at.boundary))
    ELSE CloseMultipart(RewriteContentType(at.parts, nh.contentType,
                                           generateBoundary(at.n + 1),
                                           FindContentType(at.parts)),
                        at, generateBoundary(at.n + 1),
                        parseChildren(node.childNodes, at.n + 1, attachments, TRUE,
                                      generateBoundary(at.n + 1)))

\* the steps of parseNode after the header block
RenderNode(node, n, attachments, nh) ==
    HandleChildren(node, attachments, nh,
                   HandleAttachment(node, n, attachments, nh, BaseParts(node, nh)))

\* parseNode(node): n counts the calls of generateBoundary made so far
parseNode(node, n, attachments) == RenderNode(node, n, attachments, NodeHeaders(node))

\* the loops over node.childNodes with the delimiter pushed after the child
parseChildrenDelimiterAfter(childNodes, n, attachments, multi, subBoundary) ==
    IF Len(childNodes) = 0 THEN Rendering(<<>>, n, FALSE, <<>>)
    ELSE LET first == parseNode(Head(childNodes), n, attachments)
             rest == parseChildren(Tail(childNodes), first.n, attachments,
                                   multi, subBoundary)
         IN  IF first.threw THEN Rendering(<<>>, first.n, TRUE, <<>>)
             ELSE Rendering(first.lines
                            \o (IF multi THEN <<Open(subBoundary)>> ELSE <<>>)
                            \o rest.lines,
                            rest.n, rest.threw, first.levels \o rest.levels)

\* the two loops over node.childNodes
parseChildren(childNodes, n, attachments, multi, subBoundary) ==
    IF Len(childNodes) = 0 THEN Rendering(<<>>, n, FALSE, <<>>)
    ELSE LET first == parseNode(Head(childNodes), n, attachments)
             rest == parseChildren(Tail(childNodes), first.n, attachments,
                                   multi, subBoundary)
         IN  IF first.threw THEN Rendering(<<>>, first.n, TRUE, <<>>)
             ELSE Rendering((IF multi THEN <<Open(subBoundary)>> ELSE <<>>)
                            \o first.lines \o rest.lines,
                            rest.n, rest.threw, first.levels \o rest.levels)

\* reconstructHeaders with the Subject line pushed before the From line
reconstructHeadersSubjectFirst(msg) ==
    (IF msg.subject # ""
     THEN <<Hdr("Subject", normalizeEncoding(msg.subject), "")>> ELSE <<>>)
    \o (IF msg.from # "" THEN <<Hdr("From", normalizeEncoding(msg.from), "")>> ELSE <<>>)
    \o (IF msg.to # "" THEN <<Hdr("To", normalizeEncoding(msg.to), "")>> ELSE <<>>)
    \o (IF msg.date # "" THEN <<Hdr("Date", ToUTCString(msg.date), "")>> ELSE <<>>)
    \o <<Hdr("MIME-Version", "1.0", "")>>

\* reconstructHeaders(msg); msg holds the fields hydrated onto the root
reconstructHeaders(msg) ==
    (IF msg.from # "" THEN <<Hdr("From", normalizeEncoding(msg.from), "")>> ELSE <<>>)
    \o (IF msg.subject # ""
        THEN <<Hdr("Subject", normalizeEncoding(msg.subject), "")>> ELSE <<>>)
    \o (IF msg.to # "" THEN <<Hdr("To", normalizeEncoding(msg.to), "")>> ELSE <<>>)
    \o (IF msg.date # "" THEN <<Hdr("Date", ToUTCString(msg.date), "")>> ELSE <<>>)
    \o <<Hdr("MIME-Version", "1.0", "")>>

\* the test of the root alone, without the .some over childNodes
hasAttachmentsRootOnly(mimeTree) == mimeTree.attachmentId # ""

\* mimeTree.attachmentId || mimeTree.childNodes.some(node => node.attachmentId)
hasAttachments(mimeTree) ==
    \/ mimeTree.attachmentId # ""
    \/ \E i \in 1..Len(mimeTree.childNodes) : mimeTree.childNodes[i].attachmentId # ""

RECURSIVE Trim(_)
\* text.trim(), on lines: trailing empty lines go
Trim(lines) ==
    IF Len(lines) > 0 /\ lines[Len(lines)] = Blank
    THEN Trim(SubSeq(lines, 1, Len(lines) - 1))
    ELSE lines

\* processEmailContent(mimeTree, attachments): whether it raised, the lines
\* of the message, and the multipart levels of the message
processEmailContent(mimeTree, msg, attachments) ==
    LET mainBoundary == generateBoundary(1)
        wrapped == hasAttachments(mimeTree)
        root == parseNode(mimeTree, 1, attachments)
        emailParts ==
            reconstructHeaders(msg)
            \o (IF wrapped
                THEN <<Hdr("Content-Type", "multipart/mixed", mainBoundary),
                       Blank, TextLine(Preamble), Blank, Open(mainBoundary)>>
                ELSE <<>>)
            \o root.lines
            \o (IF wrapped THEN <<Close(mainBoundary)>> ELSE <<>>)
    IN  IF root.threw THEN [threw |-> TRUE, lines |-> <<>>, levels |-> <<>>]
        ELSE [threw |-> FALSE, lines |-> Trim(emailParts),
              levels |-> (IF wrapped THEN <<{mainBoundary}>> ELSE <<>>) \o root.levels]

\* ------------------------------------------------------------------------
\* The export run
\* ------------------------------------------------------------------------
VARIABLES
    pc,             \* the loop the run is in
    attachmentRows, \* rows of the Attachments query
    ai,             \* position of the attachment loop
    attachments,    \* the attachment table, attachmentId -> entry
    contents,       \* what decodeContent returned, per attachment row
    attFiles,       \* files written under the _attachments directory
    mailboxRows,    \* rows of the Mailboxes query
    bi,             \* position of the mailbox loop
    mailboxMap,     \* mailbox _id -> safe path
    dirs,           \* directories that exist under the output directory
    Messages,       \* the Messages table, in storage order
    messageRows,    \* rows of the Messages query (ORDER BY uid)
    mi,             \* position of the message loop
    processedCount,
    errorCount,
    emlFiles,       \* message files written, path -> lines
    handled         \* _id of the rows the message loop has taken, in order

\* the state of the allowlist job
VARIABLES
    jpc,            \* the step of the job, within the iteration of a domain
    domains,        \* the paid domains of the cursor, with their recipients
    di,             \* position of the loop over domains
    set,            \* the candidate set of the domain of the iteration
    backscatter,    \* values v whose key backscatter:v is truthy
    denylist,       \* values v whose key denylist:v is truthy
    silent,         \* value v -> what the key silent:v holds, "" for none
    allowlist,      \* the keys allowlist:v written, with the iteration
    alerts,         \* the alert emails sent, with the iteration
    checked         \* the values the silent ban check looked up, with the iteration

jobVars == <<jpc, domains, di, set, backscatter, denylist, silent, allowlist,
             alerts, checked>>

exportVars == <<pc, attachmentRows, ai, attachments, contents, attFiles, mailboxRows,
                bi, mailboxMap, dirs, Messages, messageRows, mi, processedCount,
                errorCount, emlFiles, handled>>

vars == <<pc, attachmentRows, ai, attachments, contents, attFiles, mailboxRows,
          bi, mailboxMap, dirs, Messages, messageRows, mi, processedCount,
          errorCount, emlFiles, handled, jpc, domains, di, set, backscatter,
          denylist, silent, allowlist, alerts, checked>>

\* the allowlist job does not run
JobIdle ==
    /\ jpc = "idle"
    /\ domains = <<>>
    /\ di = 1
    /\ set = {}
    /\ backscatter = {}
    /\ denylist = {}
    /\ silent = [v \in {} |-> ""]
    /\ allowlist = {}
    /\ alerts = {}
    /\ checked = {}

attachmentDir == "_attachments"

\* names that contain a path separator
HasSlash(name) == name \in {"x/y"}

\* the directory path.join(attachmentDir, name) lies in
DirOfAttachmentFile(hashOrId, attachmentId) ==
    IF HasSlash(hashOrId) \/ HasSlash(attachmentId)
    THEN "_attachments/x" ELSE attachmentDir

\* contentType.split(';')[0].trim().toLowerCase().split('/')[1], with the
\* dot, "" when there is none or it contains '*'
FileExt(contentType) ==
    CASE contentType = "application/pdf" -> ".pdf"
      [] contentType = "text/plain; charset=utf-8" -> ".plain"
      [] contentType = "image/*" -> ""
      [] OTHER -> ""

\* punycode.toASCII(mailbox.path)
toASCII(path) ==
    CASE path = "Jerome (e acute, o circumflex)" -> "xn--Jrme-bpa5e"
      [] OTHER -> path

\* decodeContent was not called for the row
NotCalled == [called |-> FALSE, ok |-> FALSE, bytes |-> <<>>, warned |-> FALSE]

Called(c) == [called |-> TRUE, ok |-> c.ok, bytes |-> c.bytes, warned |-> c.warned]

\* the files decodeContent writes with fs.writeFileSync
DebugFiles(hashOrId, attachmentId, body, transferEncoding) ==
    LET hex == decodeHex(body).ok
        suffixes == {"_debug_1_original.txt"}
                    \cup (IF hex THEN {"_debug_2_hexdecoded.txt", "_debug_3_hextostr.txt",
                                       "_debug_5_final.bin", "_debug_5_final.hex",
                                       "_debug_5_final.b64"}
                          ELSE {})
                    \cup (IF hex /\ ToLowerCase(transferEncoding) = "base64"
                          THEN {"_debug_4_cleanbase64.txt"} ELSE {})
    IN  {<<hashOrId, attachmentId, x>> : x \in suffixes}

Put(f, key, val) ==
    [x \in (DOMAIN f) \cup {key} |-> IF x = key THEN val ELSE f[x]]

\* one round of the loop over attachmentRows
AttachmentStep ==
    /\ UNCHANGED jobVars
    /\ pc = "attachments"
    /\ ai <= Len(attachmentRows)
    /\ LET row == attachmentRows[ai]
           hashOrId == IF row.hash # "" THEN row.hash ELSE row._id
           writable == DirOfAttachmentFile(hashOrId, row.attachmentId) \in dirs
           content == decodeContent(row.body, row.transferEncoding, writable)
           fileName == <<hashOrId, row.attachmentId, FileExt(row.contentType)>>
       IN  IF Len(row.body) = 0
           THEN /\ contents' = Append(contents, NotCalled)
                /\ UNCHANGED <<attachments, attFiles>>
           ELSE /\ contents' = Append(contents, Called(content))
                /\ attFiles' =
                      attFiles
                      \cup (IF writable
                            THEN DebugFiles(hashOrId, row.attachmentId, row.body,
                                            row.transferEncoding)
                            ELSE {})
                      \cup (IF content.ok /\ writable THEN {fileName} ELSE {})
                /\ attachments' =
                      IF content.ok /\ writable
                      THEN Put(attachments, row.attachmentId,
                               [content |-> content.bytes,
                                contentType |-> IF row.contentType # ""
                                                THEN row.contentType
                                                ELSE "application/octet-stream",
                                name |-> fileName,
                                size |-> Len(content.bytes)])
                      ELSE attachments
    /\ ai' = ai + 1
    /\ UNCHANGED <<pc, attachmentRows, mailboxRows, bi, mailboxMap, dirs, Messages,
                   messageRows, mi, processedCount, errorCount, emlFiles, handled>>

\* the attachment loop ends one row early
AttachmentsDoneEarly ==
    /\ UNCHANGED jobVars
    /\ pc = "attachments"
    /\ ai >= Len(attachmentRows)
    /\ pc' = "mailboxes"
    /\ UNCHANGED <<attachmentRows, ai, attachments, contents, attFiles, mailboxRows,
                   bi, mailboxMap, dirs, Messages, messageRows, mi, processedCount,
                   errorCount, emlFiles, handled>>

\* the attachment loop ends
AttachmentsDone ==
    /\ UNCHANGED jobVars
    /\ pc = "attachments"
    /\ ai > Len(attachmentRows)
    /\ pc' = "mailboxes"
    /\ UNCHANGED <<attachmentRows, ai, attachments, contents, attFiles, mailboxRows,
                   bi, mailboxMap, dirs, Messages, messageRows, mi, processedCount,
                   errorCount, emlFiles, handled>>

\* one round of the loop over mailboxRows
MailboxStep ==
    /\ UNCHANGED jobVars
    /\ pc = "mailboxes"
    /\ bi <= Len(mailboxRows)
    /\ LET mailbox == mailboxRows[bi]
           safeMailboxPath == toASCII(mailbox.path)
       IN  /\ mailboxMap' = Put(mailboxMap, mailbox._id, safeMailboxPath)
           /\ dirs' = dirs \cup {safeMailboxPath}
    /\ bi' = bi + 1
    /\ UNCHANGED <<pc, attachmentRows, ai, attachments, contents, attFiles,
                   mailboxRows, Messages, messageRows, mi, processedCount,
                   errorCount, emlFiles, handled>>

\* the orders in which a query can return the rows of a table
RowOrders(table) ==
    {[i \in 1..Len(table) |-> table[p[i]]] :
        p \in {q \in [1..Len(table) -> 1..Len(table)] :
                  \A i, j \in 1..Len(table) : i # j => q[i] # q[j]}}

\* ORDER BY uid DESC
OrderedByUidDesc(rows) == \A i \in 1..(Len(rows) - 1) : rows[i].uid >= rows[i + 1].uid

\* ORDER BY uid
OrderedByUid(rows) == \A i \in 1..(Len(rows) - 1) : rows[i].uid <= rows[i + 1].uid

\* SELECT ... FROM Messages ORDER BY uid
LoadMessages ==
    /\ UNCHANGED jobVars
    /\ pc = "mailboxes"
    /\ bi > Len(mailboxRows)
    /\ \E rows \in RowOrders(Messages) :
          /\ OrderedByUid(rows)
          /\ messageRows' = rows
    /\ pc' = "messages"
    /\ UNCHANGED <<attachmentRows, ai, attachments, contents, attFiles, mailboxRows,
                   bi, mailboxMap, dirs, Messages, mi, processedCount, errorCount,
                   emlFiles, handled>>

\* JSON.parse(message.mimeTree) and the reads of mimeTree.header succeed
Parses(stored) == stored.json = "tree"

RECURSIVE HydrateFrom(_, _, _)
\* the value of the last header line named key, "" when there is none
HydrateFrom(header, key, acc) ==
    IF Len(header) = 0 THEN acc
    ELSE HydrateFrom(Tail(header), key,
                     IF ToLowerCase(Head(header).n) = key THEN Head(header).v ELSE acc)

\* the fields the message loop sets on the root node
Hydrate(message) ==
    LET header == message.mimeTree.tree.header
    IN  [subject |-> message.subject,
         from |-> HydrateFrom(header, "from", ""),
         to |-> HydrateFrom(header, "to", ""),
         date |-> HydrateFrom(header, "date", "")]

\* mailboxMap.get(message.mailbox) || 'unknown'
MailboxPathOf(message, map) ==
    IF message.mailbox \in DOMAIN map /\ map[message.mailbox] # ""
    THEN map[message.mailbox] ELSE "unknown"

FilePathOf(message, map) ==
    [dir |-> MailboxPathOf(message, map), name |-> message._id]

\* one round of the loop over messageRows
MessageStep ==
    /\ UNCHANGED jobVars
    /\ pc = "messages"
    /\ mi <= Len(messageRows)
    /\ LET message == messageRows[mi]
           filePath == FilePathOf(message, mailboxMap)
           emailContent == processEmailContent(message.mimeTree.tree,
                                               Hydrate(message), attachments)
       IN  IF ~Parses(message.mimeTree)
           THEN UNCHANGED <<processedCount, errorCount, emlFiles>>
           ELSE IF emailContent.threw \/ filePath.dir \notin dirs
           THEN /\ errorCount' = errorCount + 1
                /\ UNCHANGED <<processedCount, emlFiles>>
           ELSE /\ emlFiles' = Put(emlFiles, filePath, emailContent.lines)
                /\ processedCount' = processedCount + 1
                /\ UNCHANGED errorCount
    /\ handled' = Append(handled, messageRows[mi]._id)
    /\ mi' = mi + 1
    /\ UNCHANGED <<pc, attachmentRows, ai, attachments, contents, attFiles,
                   mailboxRows, bi, mailboxMap, dirs, Messages, messageRows>>

\* the message loop ends, the summary is printed
MessagesDone ==
    /\ UNCHANGED jobVars
    /\ pc = "messages"
    /\ mi > Len(messageRows)
    /\ pc' = "done"
    /\ UNCHANGED <<attachmentRows, ai, attachments, contents, attFiles, mailboxRows,
                   bi, mailboxMap, dirs, Messages, messageRows, mi, processedCount,
                   errorCount, emlFiles, handled>>

\* ------------------------------------------------------------------------
\* The allowlist job
\* ------------------------------------------------------------------------

IPs == {"192.0.2.1", "192.0.2.2"}

\* isFQDN, isEmail, isIP
isFQDN(v) == v \in {"paid.example.com", "example.com", "mail.test"}
isEmail(v) == v \in {"fwd@mail.test"}
isIP(v) == v \in IPs

parseRootDomain(name) ==
    CASE name = "paid.example.com" -> "example.com"
      [] OTHER -> name

\* recipient.split('@')[1]
DomainOfEmail(recipient) ==
    CASE recipient = "fwd@mail.test" -> "mail.test"
      [] OTHER -> ""

\* boolean(result) of the package 'boolean' on what a key holds
Boolean(result) == result \in {"true", "t", "yes", "y", "on", "1"}

\* what one recipient adds to the set
OfRecipient(recipient) ==
    IF isFQDN(recipient) THEN {recipient}
    ELSE IF isEmail(recipient) THEN {recipient, DomainOfEmail(recipient)}
    ELSE IF isIP(recipient) THEN {recipient}
    ELSE {}

\* the set after the loops over the aliases and their recipients
Collected(domain) ==
    {domain.name}
    \cup (IF domain.name # parseRootDomain(domain.name)
          THEN {parseRootDomain(domain.name)} ELSE {})
    \cup UNION {OfRecipient(domain.recipients[k]) : k \in 1..Len(domain.recipients)}

\* the iteration of a domain starts: the candidate set is collected
JobCollect ==
    /\ jpc = "collect"
    /\ di <= Len(domains)
    /\ set' = Collected(domains[di])
    /\ jpc' = "resolve"
    /\ UNCHANGED <<domains, di, backscatter, denylist, silent, allowlist, alerts,
                   checked>>
    /\ UNCHANGED exportVars

\* the lookups of the A and MX records of the hosts of the set: every
\* address they return is added, a failing lookup is logged
JobResolve ==
    /\ jpc = "resolve"
    /\ \E ips \in SUBSET IPs :
          /\ (ips # {} => \E host \in set : isFQDN(host))
          /\ set' = set \cup ips
    /\ jpc' = "backscatter"
    /\ UNCHANGED <<domains, di, backscatter, denylist, silent, allowlist, alerts,
                   checked>>
    /\ UNCHANGED exportVars

\* emailHelper raised: the catch around the loop ends the job
JobFail ==
    /\ jpc' = "done"
    /\ UNCHANGED <<domains, di, set, backscatter, denylist, silent, allowlist,
                   alerts, checked>>
    /\ UNCHANGED exportVars

\* the alert email of a check is sent
Alerted(kind, list) ==
    alerts' = alerts \cup {[domain |-> di, kind |-> kind, list |-> list]}

\* check backscatter (the addresses of the set only)
JobBackscatter ==
    /\ jpc = "backscatter"
    /\ LET list == {v \in set : isIP(v) /\ v \in backscatter}
       IN  IF list = {}
           THEN /\ jpc' = "denylist"
                /\ UNCHANGED <<domains, di, set, backscatter, denylist, silent,
                               allowlist, alerts, checked>>
                /\ UNCHANGED exportVars
           ELSE \/ /\ Alerted("backscatter", list)
                   /\ jpc' = "denylist"
                   /\ UNCHANGED <<domains, di, set, backscatter, denylist, silent,
                                  allowlist, checked>>
                   /\ UNCHANGED exportVars
                \/ JobFail

\* check denylist: the email addresses on it leave the set
JobDenylist ==
    /\ jpc = "denylist"
    /\ LET list == {v \in set : v \in denylist}
       IN  IF list = {}
           THEN /\ jpc' = "silent"
                /\ UNCHANGED <<domains, di, set, backscatter, denylist, silent,
                               allowlist, alerts, checked>>
                /\ UNCHANGED exportVars
           ELSE \/ /\ Alerted("denylist", list)
                   /\ set' = set \ {v \in list : isEmail(v)}
                   /\ jpc' = "silent"
                   /\ UNCHANGED <<domains, di, backscatter, denylist, silent,
                                  allowlist, checked>>
                   /\ UNCHANGED exportVars
                \/ JobFail

\* what the silent ban check looked up
Looked == checked \cup {[domain |-> di, value |-> v] : v \in set}

\* check silent ban with only the email addresses leaving the set
JobSilentEmailsOnly ==
    /\ jpc = "silent"
    /\ checked' = Looked
    /\ LET list == {v \in set : Boolean(silent[v])}
       IN  IF list = {}
           THEN /\ jpc' = "write"
                /\ UNCHANGED <<domains, di, set, backscatter, denylist, silent,
                               allowlist, alerts>>
                /\ UNCHANGED exportVars
           ELSE \/ /\ Alerted("silent", list)
                   /\ set' = set \ {v \in list : isEmail(v)}
                   /\ jpc' = "write"
                   /\ UNCHANGED <<domains, di, backscatter, denylist, silent,
                                  allowlist>>
                   /\ UNCHANGED exportVars
                \/ /\ jpc' = "done"
                   /\ UNCHANGED <<domains, di, set, backscatter, denylist, silent,
                                  allowlist, alerts>>
                   /\ UNCHANGED exportVars

\* check silent ban: every value on it leaves the set; when emailHelper
\* raises, the catch around the loop ends the job
JobSilent ==
    /\ jpc = "silent"
    /\ checked' = Looked
    /\ LET list == {v \in set : Boolean(silent[v])}
       IN  IF list = {}
           THEN /\ jpc' = "write"
                /\ UNCHANGED <<domains, di, set, backscatter, denylist, silent,
                               allowlist, alerts>>
                /\ UNCHANGED exportVars
           ELSE \/ /\ Alerted("silent", list)
                   /\ set' = set \ list
                   /\ jpc' = "write"
                   /\ UNCHANGED <<domains, di, backscatter, denylist, silent,
                                  allowlist>>
                   /\ UNCHANGED exportVars
                \/ /\ jpc' = "done"
                   /\ UNCHANGED <<domains, di, set, backscatter, denylist, silent,
                                  allowlist, alerts>>
                   /\ UNCHANGED exportVars

\* the pipeline of allowlist keys, none when the set is empty
JobWrite ==
    /\ jpc = "write"
    /\ allowlist' = allowlist \cup {[domain |-> di, value |-> v] : v \in set}
    /\ di' = di + 1
    /\ set' = {}
    /\ jpc' = "collect"
    /\ UNCHANGED <<domains, backscatter, denylist, silent, alerts, checked>>
    /\ UNCHANGED exportVars

\* the cursor is exhausted
JobDone ==
    /\ jpc = "collect"
    /\ di > Len(domains)
    /\ jpc' = "done"
    /\ UNCHANGED <<domains, di, set, backscatter, denylist, silent, allowlist,
                   alerts, checked>>
    /\ UNCHANGED exportVars

\* ------------------------------------------------------------------------
\* Inputs
\* ------------------------------------------------------------------------

\* "SGVsbG8=" and "Hello"
TextSGVsbG8 == <<83, 71, 86, 115, 98, 71, 56, 61>>
BytesHello == <<72, 101, 108, 108, 111>>

\* "534756736247383d": the hex digits of "SGVsbG8="
HexSGVsbG8 == <<53, 51, 52, 55, 53, 54, 55, 51, 54, 50, 52, 55, 51, 56, 51, 100>>
\* the same with a line break inside and an upper-case digit
HexSGVsbG8Wrapped == <<53, 51, 52, 55, 53, 54, 55, 51, 13, 10, 54, 50, 52, 55, 51, 56, 51, 68>>
\* "21212121": the hex digits of "!!!!", no base64 character in it
HexBangs == <<50, 49, 50, 49, 50, 49, 50, 49>>
\* "3d3431": the hex digits of "=41"
HexQP == <<51, 100, 51, 52, 51, 49>>
\* "c3a9" and "ff": a two-byte character, and a byte that is not UTF-8
HexEacute == <<99, 51, 97, 57>>
HexFF == <<102, 102>>

\* '4', 'd', 'D', 'G', ' ', '\n'
BodyAlphabet == {52, 100, 68, 71, 32, 10}

ShortBodies == UNION {[1..n -> BodyAlphabet] : n \in 0..MaxBodyLen}

SampleBodies ==
    {HexSGVsbG8, HexSGVsbG8Wrapped, HexBangs, HexQP, HexEacute, HexFF, TextSGVsbG8}

TransferEncodings ==
    {"base64", "BASE64", "7bit", "8bit", "binary", "quoted-printable",
     "Quoted-Printable", "x-uuencode"}

AttachmentRow(id, attachmentId, contentType, transferEncoding, hash, size, body) ==
    [_id |-> id, attachmentId |-> attachmentId, contentType |-> contentType,
     transferEncoding |-> transferEncoding, hash |-> hash, size |-> size,
     body |-> body]

\* rows for the decoder
DecodeRows ==
    {AttachmentRow("id1", "a1", "application/pdf", te, hash, 5, body) :
        te \in TransferEncodings, hash \in {"", "h1", "x/y"},
        body \in ShortBodies \cup SampleBodies}

\* rows with the body and the transfer encoding of row r
SameInput(r) ==
    {AttachmentRow("id2", "a2", ct, r.transferEncoding, hash, 0, r.body) :
        ct \in {"", "image/*"}, hash \in {"", "x/y"}}

StoredHeader(n, v, b) == [n |-> n, v |-> v, b |-> b]

Node(header, body, attachmentId, childNodes) ==
    [header |-> header, body |-> body, attachmentId |-> attachmentId,
     childNodes |-> childNodes]

Stored(json, tree) == [json |-> json, tree |-> tree]

EmptyNode == Node(<<>>, "", "", <<>>)

CTPlain == StoredHeader("Content-Type", "text/plain", "")

LeafHeaders ==
    {<<>>,
     <<CTPlain>>,
     <<StoredHeader("From", "a NBSP b", ""), StoredHeader("To", "bob@example.com", ""),
       StoredHeader("Date", "Mon, 1 Jan 2024 10:00:00 +0200", ""), CTPlain>>,
     <<StoredHeader("date", "not a date", ""), CTPlain>>,
     <<StoredHeader("Content-Type", "", "")>>,
     <<CTPlain, StoredHeader("content-transfer-encoding", "base64", "")>>}

MultipartHeaders ==
    {<<StoredHeader("Content-Type", "multipart/mixed", "X")>>,
     <<StoredHeader("Content-Type", "multipart/mixed", "")>>,
     <<StoredHeader("content-type", "multipart/alternative", "")>>,
     <<StoredHeader("Content-Type", "multipart/alternative", "Y")>>}

AttachmentIds == {"", "a1", "a9"}

Leaves ==
    {Node(h, b, a, <<>>) :
        h \in LeafHeaders,
        b \in {"", "hello", "<!DOCTYPE html><p>a&amp;b</p>", "  <!doctype HTML>&lt;"},
        a \in AttachmentIds}

KidLeaves ==
    {Node(<<CTPlain>>, "hello", a, <<>>) : a \in AttachmentIds} \cup {EmptyNode}

KidLists == UNION {[1..n -> KidLeaves] : n \in 1..MaxKids}

Mids ==
    {Node(h, b, a, kids) :
        h \in MultipartHeaders \cup {<<CTPlain>>}, b \in {"", "hello"},
        a \in AttachmentIds, kids \in KidLists}

InnerMultiparts ==
    {Node(h, "", a, <<Node(<<CTPlain>>, "hello", "", <<>>)>>) :
        h \in MultipartHeaders, a \in {"", "a1"}}

Tops ==
    {Node(h, "", a, <<inner>> \o tail) :
        h \in MultipartHeaders, a \in {"", "a1"}, inner \in InnerMultiparts,
        tail \in {<<>>, <<Node(<<CTPlain>>, "hello", "a1", <<>>)>>}}

Trees == Leaves \cup Mids \cup Tops

AttachmentEntry(content) ==
    [content |-> content, contentType |-> "application/pdf",
     name |-> <<"h1", "a1", ".pdf">>, size |-> Len(content)]

NoAttachments == [x \in {} |-> AttachmentEntry(<<>>)]

\* tables the attachment loop can leave behind
Tables ==
    {NoAttachments,
     [x \in {"a1"} |-> AttachmentEntry(BytesHello)],
     [x \in {"a1"} |-> AttachmentEntry(<<>>)]}

MessageRow(id, mailbox, subject, uid, mimeTree) ==
    [_id |-> id, mailbox |-> mailbox, subject |-> subject, uid |-> uid,
     mimeTree |-> mimeTree]

MessageIds == <<"msg1", "msg2", "msg3", "msg4">>

\* stored trees of the whole run: one that does not parse, a plain leaf,
\* a leaf with an attachment reference
RunTrees ==
    {Stored("syntax error", EmptyNode),
     Stored("tree", Node(<<CTPlain>>, "hello", "", <<>>)),
     Stored("tree", Node(<<CTPlain>>, "hello", "a1", <<>>))}

RunTables ==
    UNION {[1..n -> [mailbox : {"m1", "gone"}, uid : {1, 2}, mimeTree : RunTrees]] :
              n \in 1..MaxMessages}

RunRows ==
    {AttachmentRow("id1", "a1", "application/pdf", "base64", "h1", 5, HexSGVsbG8),
     AttachmentRow("id2", "a1", "application/pdf", "base64", "", 0, HexBangs),
     AttachmentRow("id3", "a2", "", "7bit", "x/y", 0, HexFF),
     AttachmentRow("id4", "a2", "image/*", "binary", "h4", 0, <<>>)}

RunMailboxes ==
    <<[_id |-> "m1", path |-> "INBOX"],
      [_id |-> "m2", path |-> "Jerome (e acute, o circumflex)"]>>

\* ------------------------------------------------------------------------
\* Specifications
\* ------------------------------------------------------------------------

\* the run from its start
Init ==
    /\ JobIdle
    /\ pc = "attachments"
    /\ attachmentRows \in UNION {[1..n -> RunRows] : n \in 0..MaxRows}
    /\ ai = 1
    /\ attachments = NoAttachments
    /\ contents = <<>>
    /\ attFiles = {}
    /\ mailboxRows = RunMailboxes
    /\ bi = 1
    /\ mailboxMap = [x \in {} |-> ""]
    /\ dirs = {".", attachmentDir}
    /\ \E t \in RunTables :
          Messages = [i \in 1..Len(t) |->
                         MessageRow(MessageIds[i], t[i].mailbox, "Hi", t[i].uid,
                                    t[i].mimeTree)]
    /\ messageRows = <<>>
    /\ mi = 1
    /\ processedCount = 0
    /\ errorCount = 0
    /\ emlFiles = [x \in {} |-> <<>>]
    /\ handled = <<>>

Next ==
    \/ AttachmentStep
    \/ AttachmentsDone
    \/ MailboxStep
    \/ LoadMessages
    \/ MessageStep
    \/ MessagesDone

Spec == Init /\ [][Next]_vars

\* the loop the run is in and the positions of the loops
control == <<pc, ai, bi, mi>>

\* what a step of the run does to the control state: a round of a loop
\* moves its position by one, the end of a loop moves to the next loop
Advance ==
    \/ /\ pc = "attachments"
       /\ ai <= Len(attachmentRows)
       /\ ai' = ai + 1
       /\ UNCHANGED <<pc, bi, mi>>
    \/ /\ pc = "attachments"
       /\ ai > Len(attachmentRows)
       /\ pc' = "mailboxes"
       /\ UNCHANGED <<ai, bi, mi>>
    \/ /\ pc = "mailboxes"
       /\ bi <= Len(mailboxRows)
       /\ bi' = bi + 1
       /\ UNCHANGED <<pc, ai, mi>>
    \/ /\ pc = "mailboxes"
       /\ bi > Len(mailboxRows)
       /\ pc' = "messages"
       /\ UNCHANGED <<ai, bi, mi>>
    \/ /\ pc = "messages"
       /\ mi <= Len(messageRows)
       /\ mi' = mi + 1
       /\ UNCHANGED <<pc, ai, bi>>
    \/ /\ pc = "messages"
       /\ mi > Len(messageRows)
       /\ pc' = "done"
       /\ UNCHANGED <<ai, bi, mi>>

\* the script runs on: a loop that can take a round or end does so
FairSpec == Spec /\ WF_control(Advance)

\* the attachment loop on two rows, the second with the body and the
\* transfer encoding of the first
InitDecode ==
    /\ JobIdle
    /\ pc = "attachments"
    /\ \E r1 \in DecodeRows : \E r2 \in SameInput(r1) : attachmentRows = <<r1, r2>>
    /\ ai = 1
    /\ attachments = NoAttachments
    /\ contents = <<>>
    /\ attFiles = {}
    /\ mailboxRows = <<>>
    /\ bi = 1
    /\ mailboxMap = [x \in {} |-> ""]
    /\ dirs = {".", attachmentDir}
    /\ Messages = <<>>
    /\ messageRows = <<>>
    /\ mi = 1
    /\ processedCount = 0
    /\ errorCount = 0
    /\ emlFiles = [x \in {} |-> <<>>]
    /\ handled = <<>>

NextDecode == AttachmentStep \/ AttachmentsDone

DecodeSpec == InitDecode /\ [][NextDecode]_vars

\* the message loop on one message, after the attachment and mailbox loops
InitSerialize ==
    /\ JobIdle
    /\ pc = "messages"
    /\ attachmentRows = <<>>
    /\ ai = 1
    /\ attachments \in Tables
    /\ contents = <<>>
    /\ attFiles = {}
    /\ mailboxRows = <<[_id |-> "m1", path |-> "INBOX"]>>
    /\ bi = 2
    /\ mailboxMap = [x \in {"m1"} |-> "INBOX"]
    /\ dirs = {".", attachmentDir, "INBOX"}
    /\ \E tree \in Trees, subject \in {"Hi", ""} :
          Messages = <<MessageRow("msg1", "m1", subject, 1, Stored("tree", tree))>>
    /\ messageRows = Messages
    /\ mi = 1
    /\ processedCount = 0
    /\ errorCount = 0
    /\ emlFiles = [x \in {} |-> <<>>]
    /\ handled = <<>>

NextSerialize == MessageStep \/ MessagesDone

SerializeSpec == InitSerialize /\ [][NextSerialize]_vars

\* the values the job meets
JobValues ==
    {"paid.example.com", "example.com", "mail.test", "fwd@mail.test", "hook"} \cup IPs

\* paid domains with the recipients of their enabled aliases
JobDomains ==
    {[name |-> "paid.example.com", recipients |-> <<"fwd@mail.test", "hook">>],
     [name |-> "example.com", recipients |-> <<"192.0.2.2">>],
     [name |-> "mail.test", recipients |-> <<"example.com">>]}

\* what the silent keys hold
SilentKeys ==
    {[v \in JobValues |->
         IF v \in banned THEN "true" ELSE IF v \in cleared THEN "false" ELSE ""] :
        banned \in SUBSET {"example.com", "fwd@mail.test", "192.0.2.1"},
        cleared \in {{}, {"mail.test"}}}

\* the allowlist job alone
InitJob ==
    /\ jpc = "collect"
    /\ domains \in UNION {[1..n -> JobDomains] : n \in 1..MaxDomains}
    /\ di = 1
    /\ set = {}
    /\ backscatter \in {{}, {"192.0.2.1"}}
    /\ denylist \in SUBSET {"fwd@mail.test", "192.0.2.1"}
    /\ silent \in SilentKeys
    /\ allowlist = {}
    /\ alerts = {}
    /\ checked = {}
    /\ pc = "done"
    /\ attachmentRows = <<>>
    /\ ai = 1
    /\ attachments = NoAttachments
    /\ contents = <<>>
    /\ attFiles = {}
    /\ mailboxRows = <<>>
    /\ bi = 1
    /\ mailboxMap = [x \in {} |-> ""]
    /\ dirs = {}
    /\ Messages = <<>>
    /\ messageRows = <<>>
    /\ mi = 1
    /\ processedCount = 0
    /\ errorCount = 0
    /\ emlFiles = [x \in {} |-> <<>>]
    /\ handled = <<>>

NextJob ==
    \/ JobCollect
    \/ JobResolve
    \/ JobBackscatter
    \/ JobDenylist
    \/ JobSilent
    \/ JobWrite
    \/ JobDone

AllowlistSpec == InitJob /\ [][NextJob]_vars

\* ------------------------------------------------------------------------
\* Properties
\* ------------------------------------------------------------------------

\* the message loop has taken row i
Taken(i) == pc \in {"messages", "done"} /\ i \in 1..(mi - 1)

\* the file of message row i was written
Written(i) == Taken(i) /\ FilePathOf(messageRows[i], mailboxMap) \in DOMAIN emlFiles

\* what the serializer returns for message row i
Serialized(i) ==
    processEmailContent(messageRows[i].mimeTree.tree, Hydrate(messageRows[i]),
                        attachments)

\* the file of message row i
Output(i) == emlFiles[FilePathOf(messageRows[i], mailboxMap)]

\* the writes of decodeContent for the row succeed
Writable(row) ==
    DirOfAttachmentFile(IF row.hash # "" THEN row.hash ELSE row._id, row.attachmentId)
        \in dirs

\* the stripped body is not a non-empty run of hex digits
FallsBack(body) ==
    LET cleaned == StripWS(body)
    IN  Len(cleaned) = 0 \/ \E k \in 1..Len(cleaned) : ~IsHexDigit(cleaned[k])

IsBase64Name(te) == te \in {"base64", "BASE64", "Base64"}
IsIdentityName(te) == te \in {"7bit", "8bit", "binary", "7BIT"}
IsQPName(te) == te \in {"quoted-printable", "Quoted-Printable"}

\* stage 2 of the decoder as the specification words it
Stage2(wire, te) ==
    IF IsBase64Name(te) THEN BufferFromBase64(StripWS(Utf8Decode(wire)))
    ELSE IF IsQPName(te) THEN Utf8Encode(Utf8Decode(wire))
    ELSE wire

\* C1: in every written message no two multipart levels (the outer
\* envelope, and every node that emits delimiter lines) use the same
\* boundary string.
C1_BoundariesPairwiseDistinct ==
    \A i \in 1..Len(messageRows) :
        Written(i) =>
            LET lv == Serialized(i).levels
            IN  \A a, b \in 1..Len(lv) : a # b => lv[a] \cap lv[b] = {}

RECURSIVE WithoutUnresolved(_, _)
\* the tree with every attachment reference that does not resolve removed
WithoutUnresolved(node, table) ==
    Node(node.header, node.body,
         IF node.attachmentId \in DOMAIN table THEN node.attachmentId ELSE "",
         [k \in 1..Len(node.childNodes) |->
             WithoutUnresolved(node.childNodes[k], table)])

\* C2: serializing a tree gives the result (raised or not, and the same
\* lines) of serializing the tree with its unresolved attachment
\* references removed.
C2_UnresolvedReferenceIsAbsent ==
    \A i \in 1..Len(messageRows) :
        (Taken(i) /\ Parses(messageRows[i].mimeTree)) =>
            LET bare == processEmailContent(
                            WithoutUnresolved(messageRows[i].mimeTree.tree, attachments),
                            Hydrate(messageRows[i]), attachments)
            IN  /\ Serialized(i).threw = bare.threw
                /\ Serialized(i).lines = bare.lines

\* C3: every taken message whose stored tree does not parse is counted in
\* errorCount and has no file, and every later taken message whose tree
\* parses has its file.
C3_ParseFailureCountedAndSkipped ==
    \A i \in 1..Len(messageRows) :
        (Taken(i) /\ ~Parses(messageRows[i].mimeTree)) =>
            /\ errorCount >= Cardinality({j \in 1..(mi - 1) :
                                             ~Parses(messageRows[j].mimeTree)})
            /\ FilePathOf(messageRows[i], mailboxMap) \notin DOMAIN emlFiles
            /\ \A j \in (i + 1)..(mi - 1) :
                   Parses(messageRows[j].mimeTree) => Written(j)

\* C4: for a body that falls back to its raw bytes, decodeContent returns
\* stage 2 applied to the raw bytes of the body.
C4_FallbackStillAppliesStage2 ==
    \A i \in 1..Len(contents) :
        LET row == attachmentRows[i]
        IN  (contents[i].called /\ FallsBack(row.body) /\ Writable(row)) =>
                /\ contents[i].ok
                /\ contents[i].bytes = Stage2(Utf8Encode(row.body), row.transferEncoding)

\* C5: for a non-empty body whose stripped form is all hex digits,
\* decodeContent returns content whenever its writes succeed, and the
\* content it returns is the one of the branch the lower-cased transfer
\* encoding selects: base64 decoding of the stripped text of the wire
\* bytes, the wire bytes for 7bit/8bit/binary, the text of the wire bytes
\* (escapes untouched) for quoted-printable, the wire bytes and a warning
\* for anything else.
C5_HexBodyDispatchesOnTransferEncoding ==
    \A i \in 1..Len(contents) :
        LET row == attachmentRows[i]
            te == row.transferEncoding
            wire == BufferFromHex(StripWS(row.body))
        IN  (contents[i].called /\ ~FallsBack(row.body)) =>
                /\ Writable(row) => contents[i].ok
                /\ contents[i].ok =>
                      /\ contents[i].bytes = Stage2(wire, te)
                      /\ contents[i].warned =
                            (~IsBase64Name(te) /\ ~IsIdentityName(te) /\ ~IsQPName(te))
                      /\ (row.body = HexSGVsbG8 /\ IsBase64Name(te))
                            => contents[i].bytes = BytesHello
                      /\ (row.body = HexQP /\ IsQPName(te))
                            => contents[i].bytes = <<61, 52, 49>>

\* C5 witness: the hex digits of "SGVsbG8=" were decoded as base64, under
\* an upper-case name of the encoding, to "Hello"
C5_Witness ==
    \E i \in 1..Len(contents) :
        /\ attachmentRows[i].body = HexSGVsbG8
        /\ attachmentRows[i].transferEncoding = "BASE64"
        /\ contents[i].ok
        /\ contents[i].bytes = BytesHello

\* C6: two calls of decodeContent with the same body and the same transfer
\* encoding return the same outcome.
C6_DecodeDependsOnBodyAndEncodingOnly ==
    \A i, j \in 1..Len(contents) :
        (/\ contents[i].called
         /\ contents[j].called
         /\ attachmentRows[i].body = attachmentRows[j].body
         /\ attachmentRows[i].transferEncoding = attachmentRows[j].transferEncoding)
        => (contents[i].ok = contents[j].ok /\ contents[i].bytes = contents[j].bytes)

\* the text is base64: groups of four characters of the alphabet, the last
\* group possibly ending in one or two '='
IsBase64Text(t) ==
    /\ Len(t) % 4 = 0
    /\ \A k \in 1..Len(t) :
          \/ B64Val(t[k]) < 64 /\ t[k] \notin {45, 95}
          \/ t[k] = 61 /\ k >= Len(t) - 1 /\ (k = Len(t) \/ t[Len(t)] = 61)

\* the attachment file of a row
FileOf(row) ==
    <<IF row.hash # "" THEN row.hash ELSE row._id, row.attachmentId,
      FileExt(row.contentType)>>

\* C7: after a row whose decoding raised: with 7bit/8bit/binary the
\* attachment is in the table with its raw bytes; with base64 (also when
\* the text is not base64) the attachment is not in the table and has no
\* file.
C7_DecodeExceptionPolicy ==
    \A i \in 1..Len(contents) :
        LET row == attachmentRows[i]
            te == row.transferEncoding
            wire == BufferFromHex(StripWS(row.body))
        IN  (contents[i].called /\ ~FallsBack(row.body)) =>
                /\ (IsIdentityName(te) /\ ~Writable(row)) =>
                      /\ row.attachmentId \in DOMAIN attachments
                      /\ attachments[row.attachmentId].content = wire
                /\ (IsBase64Name(te)
                    /\ (~Writable(row) \/ ~IsBase64Text(StripWS(Utf8Decode(wire))))) =>
                      /\ row.attachmentId \notin DOMAIN attachments
                      /\ FileOf(row) \notin attFiles

RECURSIVE NodesOf(_)
\* the nodes of a tree
NodesOf(node) ==
    {node} \cup UNION {NodesOf(node.childNodes[k]) : k \in 1..Len(node.childNodes)}

\* how often a line occurs
Count(lines, l) == Cardinality({k \in 1..Len(lines) : lines[k] = l})

\* the boundary strings on the delimiter lines
DelimiterBoundaries(lines) ==
    {lines[k].b : k \in {j \in 1..Len(lines) : lines[j].k \in {"open", "close"}}}

\* exactly one boundary string on the delimiter lines, on two opening
\* delimiters and on one closing delimiter
TwoOpenOneClose(lines) ==
    \E B \in DelimiterBoundaries(lines) :
        /\ DelimiterBoundaries(lines) = {B}
        /\ Count(lines, Open(B)) = 2
        /\ Count(lines, Close(B)) = 1

\* a node with a resolved attachment, a resolved content type that is not
\* multipart/*, and no child nodes
AttachmentLeaf(node, table) ==
    /\ HasAttachment(node, table)
    /\ ~IsMultipart(NodeHeaders(node).contentType)
    /\ Len(node.childNodes) = 0

\* C8: for every node of a serialized tree that has a resolved attachment,
\* a resolved content type not starting with multipart/ and no child
\* nodes: parseNode raises exactly when the attachment's content is empty,
\* and otherwise its text has exactly one boundary string B on its
\* delimiter lines, '--B' exactly twice and '--B--' exactly once.
C8_AttachmentLeafUsesOneBoundary ==
    \A i \in 1..Len(messageRows) :
        (Taken(i) /\ Parses(messageRows[i].mimeTree)) =>
            \A node \in NodesOf(messageRows[i].mimeTree.tree) :
                AttachmentLeaf(node, attachments) =>
                    /\ parseNode(node, 1, attachments).threw
                          = (Len(attachments[node.attachmentId].content) = 0)
                    /\ ~parseNode(node, 1, attachments).threw
                          => TwoOpenOneClose(parseNode(node, 1, attachments).lines)

\* C8 witness: the file of a message whose root is such a node was written,
\* with the node's boundary on two opening delimiters and one closing
\* delimiter inside the outer envelope
C8_Witness ==
    \E i \in 1..Len(messageRows) :
        /\ Written(i)
        /\ AttachmentLeaf(messageRows[i].mimeTree.tree, attachments)
        /\ \E B \in DelimiterBoundaries(Output(i)) :
              /\ Count(Output(i), Open(B)) = 2
              /\ Count(Output(i), Close(B)) = 1
              /\ Cardinality(DelimiterBoundaries(Output(i))) = 2

\* the root or one of its immediate children has an attachment reference
CarriesAttachment(tree) ==
    \/ tree.attachmentId # ""
    \/ \E k \in 1..Len(tree.childNodes) : tree.childNodes[k].attachmentId # ""

\* the lines that name the boundary M
Naming(lines, M) == {k \in 1..Len(lines) : lines[k].b = M}

\* the lines after the first h lines are the outer envelope around part
Enveloped(out, h, part) ==
    /\ Len(out) = h + 6 + Len(part)
    /\ \E M \in {BoundaryTokens[k] : k \in 1..Len(BoundaryTokens)} :
          /\ out[h + 1] = Hdr("Content-Type", "multipart/mixed", M)
          /\ out[h + 2] = Blank
          /\ out[h + 3] = TextLine(Preamble)
          /\ out[h + 4] = Blank
          /\ out[h + 5] = Open(M)
          /\ SubSeq(out, h + 6, Len(out) - 1) = part
          /\ out[Len(out)] = Close(M)
          /\ Naming(out, M) = {h + 1, h + 5, Len(out)}

\* the lines after the first h lines have no line of the outer envelope
Bare(out, h, part) ==
    /\ out = SubSeq(out, 1, h) \o Trim(part)
    /\ \A k \in 1..Len(out) : out[k] # TextLine(Preamble)
    /\ Naming(out, generateBoundary(1)) = {}

\* C9: in every written message the top-level headers are followed by the
\* outer multipart/mixed envelope (Content-Type header with a synthesized
\* boundary M, blank line, preamble, blank line, '--M', the rendered root,
\* '--M--' as the last line) when the root or one of its immediate
\* children carries an attachment reference, and by the rendered root
\* alone, without any of these lines, when none does.
C9_EnvelopeExactlyWhenAttachmentCarried ==
    \A i \in 1..Len(messageRows) :
        Written(i) =>
            /\ SubSeq(Output(i), 1, Len(reconstructHeaders(Hydrate(messageRows[i]))))
                  = reconstructHeaders(Hydrate(messageRows[i]))
            /\ IF CarriesAttachment(messageRows[i].mimeTree.tree)
               THEN Enveloped(Output(i),
                              Len(reconstructHeaders(Hydrate(messageRows[i]))),
                              parseNode(messageRows[i].mimeTree.tree, 1, attachments).lines)
               ELSE Bare(Output(i),
                         Len(reconstructHeaders(Hydrate(messageRows[i]))),
                         parseNode(messageRows[i].mimeTree.tree, 1, attachments).lines)

\* C9 witness: a message was written inside the envelope because a child
\* of its root, not the root, carries an attachment
C9_Witness ==
    \E i \in 1..Len(messageRows) :
        /\ Written(i)
        /\ messageRows[i].mimeTree.tree.attachmentId = ""
        /\ CarriesAttachment(messageRows[i].mimeTree.tree)
        /\ Output(i)[Len(Output(i))] = Close(generateBoundary(1))

\* C10: the message loop takes the rows of the Messages table one by one
\* in ascending uid order, each once, whatever happened to the rows before
\* (parse failure, serializer exception, failed write), and every run
\* reaches the end with all rows taken.
C10_EveryRowHandledInOrder ==
    /\ [](pc \in {"messages", "done"} =>
            /\ messageRows \in RowOrders(Messages)
            /\ \A a, b \in 1..Len(messageRows) :
                  a < b => messageRows[a].uid <= messageRows[b].uid
            /\ handled = [k \in 1..(mi - 1) |-> messageRows[k]._id])
    /\ <>(pc = "done" /\ Len(handled) = Len(messageRows))

\* C10 witness: the run ended after a row that was written followed a row
\* that failed
C10_Witness ==
    /\ pc = "done"
    /\ errorCount > 0
    /\ \E a, b \in 1..Len(messageRows) :
          /\ a < b
          /\ ~Written(a)
          /\ Written(b)
          /\ messageRows[a]._id # messageRows[b]._id

\* the attachment loop has taken row i and registered what it decoded
Registered(i) ==
    /\ i <= Len(contents)
    /\ (contents[i].called /\ contents[i].ok) =>
          attachmentRows[i].attachmentId \in DOMAIN attachments

\* C11: once the run has left the attachment loop every attachment row has
\* been taken by it (decoded, and registered when the decoding returned
\* content), and from then on no step adds, changes or removes an entry of
\* the attachment table.
C11_AttachmentTableFrozenBeforeMessages ==
    /\ [](pc # "attachments" => \A i \in 1..Len(attachmentRows) : Registered(i))
    /\ [][pc # "attachments" => attachments' = attachments]_vars

\* C11 witness: a message was serialized against a table with an entry,
\* after the attachment loop took two rows
C11_Witness ==
    /\ pc = "done"
    /\ Len(attachmentRows) >= 2
    /\ DOMAIN attachments # {}
    /\ processedCount > 0

\* no node of the tree has an attachment reference
WithoutAttachments(tree) == \A node \in NodesOf(tree) : node.attachmentId = ""

\* the names of the first n lines
NamesOf(lines, n) == [k \in 1..n |-> lines[k].n]

\* the message of the example: subject "Hi", a root with the single header
\* 'Content-Type: text/plain' and the body "hello"
IsExample(message) ==
    /\ message.subject = "Hi"
    /\ message.mimeTree.tree = Node(<<CTPlain>>, "hello", "", <<>>)

ExampleTail ==
    <<Hdr("Content-Type", "text/plain", ""),
      Hdr("Content-Transfer-Encoding", "quoted-printable", ""),
      Blank, BodyLine("hello")>>

PresentHeaders(message) ==
    LET header == message.mimeTree.tree.header
        from == HydrateFrom(header, "from", "")
        to == HydrateFrom(header, "to", "")
        date == HydrateFrom(header, "date", "")
    IN  (IF from # "" THEN <<Hdr("From", normalizeEncoding(from), "")>> ELSE <<>>)
        \o (IF message.subject # ""
            THEN <<Hdr("Subject", normalizeEncoding(message.subject), "")>> ELSE <<>>)
        \o (IF to # "" THEN <<Hdr("To", normalizeEncoding(to), "")>> ELSE <<>>)
        \o (IF date # ""
            THEN <<Hdr("Date", IF date = "not a date" THEN "Invalid Date"
                               ELSE "Mon, 01 Jan 2024 08:00:00 GMT", "")>>
            ELSE <<>>)

C13_HexRoundTrip ==
    \A i \in 1..Len(contents) :
        (contents[i].called /\ ~FallsBack(attachmentRows[i].body)) =>
            /\ decodeHex(attachmentRows[i].body).ok
            /\ BufferToHex(decodeHex(attachmentRows[i].body).bytes)
                  = StripWS(attachmentRows[i].body)

\* the synthesized boundary tokens
Synthesized == {BoundaryTokens[k] : k \in 1..Len(BoundaryTokens)}

\* the positions of the Content-Type lines among the first n lines
ContentTypeLines(lines, n) ==
    {k \in 1..n : lines[k].k = "hdr" /\ ToLowerCase(lines[k].n) = "content-type"}

\* the header block headers with its Content-Type line naming S, and all
\* other header lines as they were, at the start of lines, and S on the
\* delimiters of the children
HeaderRewritten(lines, headers, contentType) ==
    /\ Len(lines) > Len(headers)
    /\ lines[Len(headers) + 1] = Blank
    /\ \E S \in Synthesized :
          /\ \E c \in ContentTypeLines(headers, Len(headers)) :
                /\ ContentTypeLines(lines, Len(headers)) = {c}
                /\ lines[c].v = contentType
                /\ lines[c].b = S
                /\ \A k \in 1..Len(headers) : k # c => lines[k] = headers[k]
          /\ Count(lines, Open(S)) >= 1
          /\ Count(lines, Close(S)) >= 1

\* the header block headers unchanged at the start of lines, and the
\* declared boundary on the delimiters of the children
HeaderKept(lines, headers, boundary) ==
    /\ Len(lines) > Len(headers)
    /\ SubSeq(lines, 1, Len(headers)) = headers
    /\ lines[Len(headers) + 1] = Blank
    /\ Count(lines, Open(boundary)) >= 1
    /\ Count(lines, Close(boundary)) >= 1

\* every attachment part of the node's attachment in lines has its
\* Content-Type header: as many of them as Content-Disposition headers
AttachmentHeaderKept(lines, node, table) ==
    HasAttachment(node, table) =>
        /\ Count(lines, HdrFile("Content-Disposition", "attachment",
                                table[node.attachmentId].name)) >= 1
        /\ Count(lines, HdrFile("Content-Type", table[node.attachmentId].contentType,
                                table[node.attachmentId].name))
              = Count(lines, HdrFile("Content-Disposition", "attachment",
                                     table[node.attachmentId].name))

\* C14: for every multipart/* node with children of a serialized tree: if
\* its stored Content-Type header (whatever the case of its name) declares
\* no boundary, the rendering's header block has exactly one Content-Type
\* line, which names a synthesized boundary S used on the children's
\* delimiters, and all other lines, the attachment part's Content-Type
\* header among them, are unchanged; if it declares one, the header block
\* is unchanged and the declared boundary is on the delimiters.
C14_OwnContentTypeHeaderRewritten ==
    \A i \in 1..Len(messageRows) :
        (Taken(i) /\ Parses(messageRows[i].mimeTree)) =>
            \A node \in NodesOf(messageRows[i].mimeTree.tree) :
                (/\ IsMultipart(NodeHeaders(node).contentType)
                 /\ Len(node.childNodes) > 0
                 /\ ~parseNode(node, 1, attachments).threw) =>
                    /\ IF NodeHeaders(node).boundary = ""
                       THEN HeaderRewritten(parseNode(node, 1, attachments).lines,
                                            NodeHeaders(node).headers,
                                            NodeHeaders(node).contentType)
                       ELSE HeaderKept(parseNode(node, 1, attachments).lines,
                                       NodeHeaders(node).headers,
                                       NodeHeaders(node).boundary)
                    /\ AttachmentHeaderKept(parseNode(node, 1, attachments).lines,
                                            node, attachments)

\* the boundary of a multipart/* node in its rendering: the declared one,
\* else the one its Content-Type header line carries
OwnBoundary(lines, nh) ==
    IF nh.boundary # "" THEN nh.boundary
    ELSE IF ContentTypeLines(lines, Len(nh.headers)) = {} THEN ""
    ELSE lines[CHOOSE c \in ContentTypeLines(lines, Len(nh.headers)) :
                  \A d \in ContentTypeLines(lines, Len(nh.headers)) : c <= d].b

\* the delimiter before and the closing delimiter after the attachment
\* part that follows the first n lines (header block, blank line, body)
OwnAttachmentDelimiters(lines, n, partLen) ==
    <<lines[n + 1], lines[n + partLen]>>

\* a multipart/* node with a resolved attachment whose rendering succeeds
MultipartWithAttachment(node, table) ==
    /\ IsMultipart(NodeHeaders(node).contentType)
    /\ HasAttachment(node, table)
    /\ ~parseNode(node, 1, table).threw

\* C15: in the rendering of every multipart/* node with a resolved
\* attachment, the delimiter before the attachment part and the closing
\* delimiter after it name the node's own boundary (declared, or derived
\* and written into its Content-Type header), which is not empty.
C15_AttachmentDelimitersUseOwnBoundary ==
    \A i \in 1..Len(messageRows) :
        (Taken(i) /\ Parses(messageRows[i].mimeTree)) =>
            \A node \in NodesOf(messageRows[i].mimeTree.tree) :
                MultipartWithAttachment(node, attachments) =>
                    /\ OwnBoundary(parseNode(node, 1, attachments).lines,
                                   NodeHeaders(node)) # ""
                    /\ OwnAttachmentDelimiters(
                          parseNode(node, 1, attachments).lines,
                          Len(NodeHeaders(node).headers) + 2,
                          Len(AttachmentPart(attachments[node.attachmentId], "")))
                       = <<Open(OwnBoundary(parseNode(node, 1, attachments).lines,
                                            NodeHeaders(node))),
                           Close(OwnBoundary(parseNode(node, 1, attachments).lines,
                                             NodeHeaders(node)))>>

RECURSIVE ChildrenInOrder(_, _, _, _, _)
\* the renderings of the children in their order, every one preceded by
\* the delimiter '--B' when multi; n counts the boundaries synthesized
\* before the first child
ChildrenInOrder(childNodes, n, table, multi, B) ==
    IF Len(childNodes) = 0 THEN <<>>
    ELSE (IF multi THEN <<Open(B)>> ELSE <<>>)
         \o parseNode(Head(childNodes), n, table).lines
         \o ChildrenInOrder(Tail(childNodes), parseNode(Head(childNodes), n, table).n,
                            table, multi, B)

\* lines ends with tail, after at least n lines
EndsWith(lines, n, tail) ==
    /\ Len(lines) >= n + Len(tail)
    /\ SubSeq(lines, Len(lines) - Len(tail) + 1, Len(lines)) = tail

\* the boundaries a multipart level can have
LevelBoundaries(nh) == IF nh.boundary # "" THEN {nh.boundary} ELSE Synthesized

\* C16: the rendering of every multipart/* node with children ends, after
\* the node's headers and body, with an empty line, then for each child in
\* order '--B' and the child's rendering, then '--B--', B being the node's
\* declared boundary or else a synthesized one; the rendering of a node
\* with children that is not multipart/* ends with the children's
\* renderings in order, without delimiter lines.
C16_ChildrenInOrderBetweenDelimiters ==
    \A i \in 1..Len(messageRows) :
        (Taken(i) /\ Parses(messageRows[i].mimeTree)) =>
            \A node \in NodesOf(messageRows[i].mimeTree.tree) :
                (Len(node.childNodes) > 0 /\ ~parseNode(node, 1, attachments).threw) =>
                    \E n \in 1..4 :
                        IF IsMultipart(NodeHeaders(node).contentType)
                        THEN \E B \in LevelBoundaries(NodeHeaders(node)) :
                                EndsWith(parseNode(node, 1, attachments).lines,
                                         Len(NodeHeaders(node).headers) + 2,
                                         <<Blank>>
                                         \o ChildrenInOrder(node.childNodes, n,
                                                            attachments, TRUE, B)
                                         \o <<Close(B)>>)
                        ELSE EndsWith(parseNode(node, 1, attachments).lines,
                                      Len(NodeHeaders(node).headers) + 2,
                                      ChildrenInOrder(node.childNodes, n,
                                                      attachments, FALSE, ""))

\* C16 witness: a message was written whose root is multipart/* with two
\* children, the second with an attachment part
C16_Witness ==
    \E i \in 1..Len(messageRows) :
        /\ Written(i)
        /\ IsMultipart(NodeHeaders(messageRows[i].mimeTree.tree).contentType)
        /\ Len(messageRows[i].mimeTree.tree.childNodes) = 2
        /\ HasAttachment(messageRows[i].mimeTree.tree.childNodes[2], attachments)
        /\ Count(Output(i), Open("X")) = 2
        /\ Count(Output(i), Close("X")) = 1

\* the node has a header line named content-type, in any letter case
HasContentTypeHeader(node) ==
    \E k \in 1..Len(node.header) : ToLowerCase(node.header[k].n) = "content-type"

\* the content type to infer for a node without content-type header, ""
\* when there is no body
InferredFor(node) ==
    IF node.body \in {"<!DOCTYPE html><p>a&amp;b</p>", "  <!doctype HTML>&lt;"}
    THEN "text/html; charset=UTF-8"
    ELSE IF node.body # "" THEN "text/plain; charset=UTF-8"
    ELSE ""

\* the Content-Type lines among lines
ContentTypesOf(lines) ==
    SelectSeq(lines, LAMBDA l : l.k = "hdr" /\ ToLowerCase(l.n) = "content-type")

\* a node whose rendering is its header block, an empty line and its body
PlainLeaf(node, table) ==
    Len(node.childNodes) = 0 /\ ~HasAttachment(node, table)

\* C17: in the rendering of every node without children and attachment:
\* without a stored content-type header the header block has the one
\* Content-Type line of the inferred type (text/html for a body starting
\* with '<!doctype html', else text/plain for a body), and none when there
\* is no body; with a stored content-type header its Content-Type lines
\* are the stored ones and nothing is added.
C17_ContentTypeInferredOnlyWhenAbsent ==
    \A i \in 1..Len(messageRows) :
        (Taken(i) /\ Parses(messageRows[i].mimeTree)) =>
            \A node \in NodesOf(messageRows[i].mimeTree.tree) :
                PlainLeaf(node, attachments) =>
                    ContentTypesOf(parseNode(node, 1, attachments).lines)
                    = IF HasContentTypeHeader(node)
                      THEN ContentTypesOf([k \in 1..Len(node.header) |->
                                              Hdr(node.header[k].n,
                                                  normalizeEncoding(node.header[k].v),
                                                  node.header[k].b)])
                      ELSE IF InferredFor(node) # ""
                      THEN <<Hdr("Content-Type", InferredFor(node), "")>>
                      ELSE <<>>

\* the Content-Transfer-Encoding lines among lines
TransferEncodingsOf(lines) ==
    SelectSeq(lines,
              LAMBDA l : l.k = "hdr" /\ ToLowerCase(l.n) = "content-transfer-encoding")

\* the stored header lines as the header loop emits them
Emitted(header) ==
    [k \in 1..Len(header) |->
        Hdr(header[k].n, normalizeEncoding(header[k].v), header[k].b)]

\* the Content-Transfer-Encoding lines a header block is to have: the
\* stored ones, or the default when there is none
TransferEncodingsFor(node) ==
    IF TransferEncodingsOf(Emitted(node.header)) # <<>>
    THEN TransferEncodingsOf(Emitted(node.header))
    ELSE <<Hdr("Content-Transfer-Encoding", "quoted-printable", "")>>

\* C18: the header block of every node has the line
\* 'Content-Transfer-Encoding: quoted-printable' added exactly when no
\* stored header line is named content-transfer-encoding (in any letter
\* case); and the rendering of a node without children and attachment
\* ends with the body as stored (normalized, entities decoded for
\* text/html), not re-encoded, with or without the added line.
C18_TransferEncodingDefaultedWhenAbsent ==
    \A i \in 1..Len(messageRows) :
        (Taken(i) /\ Parses(messageRows[i].mimeTree)) =>
            \A node \in NodesOf(messageRows[i].mimeTree.tree) :
                /\ TransferEncodingsOf(NodeHeaders(node).headers)
                      = TransferEncodingsFor(node)
                /\ PlainLeaf(node, attachments) =>
                      /\ TransferEncodingsOf(parseNode(node, 1, attachments).lines)
                            = TransferEncodingsFor(node)
                      /\ parseNode(node, 1, attachments).lines[
                             Len(parseNode(node, 1, attachments).lines)]
                            = BodyLine(normalizeEncoding(
                                  IF IncludesHtml(NodeHeaders(node).contentType)
                                  THEN heDecode(node.body) ELSE node.body))

\* C18 witness: a message was written whose root has a stored
\* content-transfer-encoding line, with that line as the only one and the
\* body as stored
C18_Witness ==
    \E i \in 1..Len(messageRows) :
        /\ Written(i)
        /\ TransferEncodingsOf(Emitted(messageRows[i].mimeTree.tree.header)) # <<>>
        /\ TransferEncodingsOf(Output(i))
              = <<Hdr("content-transfer-encoding", "base64", "")>>
        /\ Output(i)[Len(Output(i))] = BodyLine("hello")

\* C19: a value the silent ban check of an iteration looked up and whose
\* key silent:<value> is truthy is not among the allowlist keys written in
\* that iteration, and an iteration that went on past the check has sent
\* the alert email that lists the value.
C19_SilentValueNeverAllowlisted ==
    \A c \in checked :
        Boolean(silent[c.value]) =>
            /\ c \notin allowlist
            /\ (jpc # "done" \/ di > c.domain) =>
                  \E a \in alerts :
                      /\ a.domain = c.domain
                      /\ a.kind = "silent"
                      /\ c.value \in a.list

\* C19 witness: an iteration wrote allowlist keys after its silent ban
\* check had removed a value from the set
C19_Witness ==
    \E c \in checked :
        /\ Boolean(silent[c.value])
        /\ ~isEmail(c.value)
        /\ \E w \in allowlist : w.domain = c.domain

\* the closing delimiter of B occurs once and no delimiter '--B' after it
ClosedOnce(lines, B) ==
    /\ Count(lines, Close(B)) = 1
    /\ \A k \in 1..Len(lines) : \A j \in 1..Len(lines) :
          (lines[k] = Close(B) /\ lines[j] = Open(B)) => j < k

\* C20: in every serialized message, for each boundary B on its delimiter
\* lines, the closing delimiter '--B--' occurs exactly once and no opening
\* delimiter '--B' occurs after it.
C20_EveryBoundaryClosedOnce ==
    \A i \in 1..Len(messageRows) :
        Written(i) =>
            \A B \in DelimiterBoundaries(Output(i)) : ClosedOnce(Output(i), B)

\* the number of lines before the first blank line
HeaderBlockLen(lines) ==
    Cardinality({k \in 1..Len(lines) : \A j \in 1..k : lines[j] # Blank})

\* how many header lines of the top-level header block carry the field
FieldCount(lines, field) ==
    Cardinality({k \in 1..HeaderBlockLen(lines) :
                    lines[k].k = "hdr" /\ ToLowerCase(lines[k].n) = field})

\* C21: in every serialized message, the lines before the first blank
\* line contain each of From, Subject, To and Date at most once.
C21_TopLevelFieldsAtMostOnce ==
    \A i \in 1..Len(messageRows) :
        Written(i) =>
            \A field \in {"from", "subject", "to", "date"} :
                FieldCount(Output(i), field) <= 1

\* the registered attachments that the tree of message row i references
ReferencedBy(i) ==
    {node.attachmentId : node \in {n \in NodesOf(messageRows[i].mimeTree.tree) :
                                      HasAttachment(n, attachments)}}

\* C22: for every message whose tree references a registered attachment
\* (one of length zero included) and whose directory exists, the
\* serializer does not raise, the output file is written and no error is
\* counted.
C22_RegisteredAttachmentSerializes ==
    \A i \in 1..Len(messageRows) :
        (/\ Taken(i)
         /\ Parses(messageRows[i].mimeTree)
         /\ ReferencedBy(i) # {}
         /\ FilePathOf(messageRows[i], mailboxMap).dir \in dirs) =>
            /\ ~Serialized(i).threw
            /\ Written(i)

\* the mailbox reference of message row i matches no mailbox row
Orphan(i) == messageRows[i].mailbox \notin DOMAIN mailboxMap

\* C23: a message whose mailbox reference matches no mailbox row, whose
\* tree parses and whose serialization does not raise, has its file
\* '<messageId>.eml' written under the directory 'unknown' and is counted
\* as processed.
C23_OrphanWrittenUnderUnknown ==
    \A i \in 1..Len(messageRows) :
        (/\ Taken(i)
         /\ Parses(messageRows[i].mimeTree)
         /\ ~Serialized(i).threw
         /\ Orphan(i)) =>
            /\ FilePathOf(messageRows[i], mailboxMap)
                  = [dir |-> "unknown", name |-> messageRows[i]._id]
            /\ Written(i)
            /\ processedCount > 0

====
